---- MODULE Spec2Model ----
(***************************************************************************)
(* A model of seagoat/repository.py: the commit-log parser, the change     *)
(* index built by Repository.analyze_files, the frecency scores, the       *)
(* ranked view of Repository.top_files, batch object-id resolution and     *)
(* the status hash.                                                        *)
(*                                                                         *)
(* Text is modelled as a sequence of tokens (a token is a run of           *)
(* characters that the code never looks inside).  The separators the code  *)
(* does look at, ":::", " ", "\t" and "\n", are tokens of their own.       *)
(***************************************************************************)
EXTENDS Integers, Sequences, FiniteSets, TLC

VARIABLES
    file_changes,         \* self.file_changes: ordered dict filename -> list of commits
    frecency_scores,      \* self.frecency_scores: ordered dict filename -> score
    ignorePatterns,       \* self.config["server"]["ignorePatterns"]
    supported,            \* the filenames is_file_type_supported accepts
    pc,                   \* "idle" or "reading" (inside the log loop of analyze_files)
    files,                \* analyze_files: the local set of enumerated files
    current_commit_info,  \* analyze_files: the local cursor
    log,                  \* the lines the log process has emitted in this run
    exit_code,            \* the exit status of the git process the last operation ran
    now,                  \* the local wall clock, in hours since 2024-01-00 00:00
    op,                   \* the last operation called
    outcome,              \* "ok", or the exception the last operation raised
    ret,                  \* the value the last operation returned
    head_tree,            \* the HEAD snapshot the last operation listed
    requested,            \* _get_all_object_ids: the filenames argument
    object_ids,           \* _get_all_object_ids: the mapping returned
    repoA, repoB,         \* two repository states: [head, diff] as printed by git
    hashA, hashB          \* get_status_hash of the two states

vars == <<file_changes, frecency_scores, ignorePatterns, supported, pc, files,
          current_commit_info, log, exit_code, now, op, outcome, ret,
          head_tree, requested, object_ids, repoA, repoB, hashA, hashB>>

resolveVars == <<requested, object_ids>>
statusVars == <<repoA, repoB, hashA, hashB>>

(***************************************************************************)
(* Bounds of the model.                                                    *)
(***************************************************************************)
MaxLines == 3       \* lines the log process emits in one run (Spec)
MaxRankLines == 4   \* lines the log process emits in one run (SpecRank)
MaxTicks == 1       \* half-day steps of the clock
MaxDiffLen == 3     \* tokens of a working-tree diff
MaxRequested == 3   \* filenames in one batch resolution

(***************************************************************************)
(* Python values.                                                          *)
(***************************************************************************)
None == <<>>
Whitespace == {" ", "\t", "\n"}

RECURSIVE lstrip(_)
lstrip(s) == IF s # <<>> /\ Head(s) \in Whitespace THEN lstrip(Tail(s)) ELSE s

RECURSIVE rstrip(_)
rstrip(s) ==
    IF s # <<>> /\ s[Len(s)] \in Whitespace THEN rstrip(SubSeq(s, 1, Len(s) - 1)) ELSE s

\* str.strip()
strip(s) == rstrip(lstrip(s))

\* sep in s
Contains(s, sep) == \E i \in 1..Len(s) : s[i] = sep

\* s.index(sep): the first position of sep (the caller checks Contains)
Index(s, sep) == CHOOSE i \in 1..Len(s) : s[i] = sep /\ \A j \in 1..(i - 1) : s[j] # sep

\* s.split(sep, maxsplit)
RECURSIVE split(_, _, _)
split(s, sep, maxsplit) ==
    IF maxsplit = 0 \/ ~Contains(s, sep)
    THEN <<s>>
    ELSE LET i == Index(s, sep)
         IN <<SubSeq(s, 1, i - 1)>> \o split(SubSeq(s, i + 1, Len(s)), sep, maxsplit - 1)

\* s.split(): the maximal runs of non-whitespace tokens
RECURSIVE splitws(_)
splitws(s) ==
    LET t == lstrip(s)
    IN IF t = <<>> THEN <<>>
       ELSE IF \E i \in 1..Len(t) : t[i] \in Whitespace
            THEN LET i == CHOOSE i \in 1..Len(t) :
                              t[i] \in Whitespace /\ \A j \in 1..(i - 1) : t[j] \notin Whitespace
                 IN <<SubSeq(t, 1, i - 1)>> \o splitws(SubSeq(t, i, Len(t)))
            ELSE <<t>>

(***************************************************************************)
(* Ordered dictionaries: a sequence of <<key, value>> in insertion order.  *)
(***************************************************************************)
Keys(d) == [i \in 1..Len(d) |-> d[i][1]]
KeySet(d) == {d[i][1] : i \in 1..Len(d)}
Get(d, k) == d[CHOOSE i \in 1..Len(d) : d[i][1] = k][2]
Put(d, k, v) ==
    IF k \in KeySet(d)
    THEN [i \in 1..Len(d) |-> IF d[i][1] = k THEN <<k, v>> ELSE d[i]]
    ELSE Append(d, <<k, v>>)

(***************************************************************************)
(* The repository the model runs on: two paths in the history, one ignore  *)
(* glob, two well-formed commit headers and a truncated one.               *)
(***************************************************************************)
Filenames == {<<"a.py">>, <<"b.md">>}
PatternLists == {<<>>, << <<"*.md">> >>}
\* what the classifier accepts: every path of the history, or the .py path only
SupportedSets == {Filenames, {<<"a.py">>}}
\* the paths a batch resolution is asked about; one has a space in its name
ListedPaths == Filenames \cup {<<"my", " ", "c.md">>}

\* pathlib: Path(path).match(pattern), tabulated for the paths and globs above
PathMatch(path, pattern) == pattern = <<"*.md">> /\ path \in {<<"b.md">>, <<"my", " ", "c.md">>}

\* The calendar fields of the timestamps the log prints (January 2024).
DayOfMonth(tok) ==
    CASE tok = "2024-01-08" -> 8 [] tok = "2024-01-09" -> 9 [] tok = "2024-01-10" -> 10
      [] OTHER -> 0
HourOfDay(tok) ==
    CASE tok = "00:00:00" -> 0 [] tok = "02:00:00" -> 2 [] tok = "23:00:00" -> 23
      [] OTHER -> 0 - 1
UtcOffset(tok) ==
    CASE tok = "+0000" -> 0 [] tok = "+1400" -> 14 [] tok = "-1100" -> 0 - 11 [] OTHER -> 99

\* datetime.strptime(date_str, "%Y-%m-%d %H:%M:%S %z") raises ValueError on any other shape
StrptimeOk(date_str) ==
    /\ Len(date_str) = 5
    /\ date_str[2] = " " /\ date_str[4] = " "
    /\ DayOfMonth(date_str[1]) # 0
    /\ HourOfDay(date_str[3]) >= 0
    /\ UtcOffset(date_str[5]) # 99

\* the aware datetime: the calendar fields as written, and the offset
strptime(date_str) ==
    [date |-> DayOfMonth(date_str[1]), hour |-> HourOfDay(date_str[3]),
     utcoffset |-> UtcOffset(date_str[5])]

\* The moment a timestamp names, in hours UTC.
Instant(dt) == 24 * dt.date + dt.hour - dt.utcoffset

\* datetime.date.today(): the local calendar date
Today(clock) == clock \div 24

\* parse_commit_info raises ValueError: the unpacking of fewer than four parts, or strptime
ParseRaises(raw_line) ==
    LET parts == split(raw_line, ":::", 3)
    IN Len(parts) # 4 \/ ~StrptimeOk(parts[2])

\* (today - commit_date).days, commit_date the .date() of the parsed timestamp
DaysPassed(parts, clock) == Today(clock) - strptime(parts[2]).date

\* parse_commit_info(raw_line), with the clock it reads
parse_commit_info(raw_line, clock) ==
    LET parts == split(raw_line, ":::", 3)
    IN <<parts[1], DaysPassed(parts, clock), parts[3], parts[4]>>

HeaderSkew ==
    <<"###c1", ":::", "2024-01-10", " ", "00:00:00", " ", "+1400", ":::",
      "Ann", " ", "<a@x>", ":::", "s1", "\n">>
HeaderDelim ==
    <<"###c2", ":::", "2024-01-09", " ", "02:00:00", " ", "+0000", ":::",
      "Bob", " ", "<b@x>", ":::", "Fix", ":::", "edge", "\n">>
HeaderShort == <<"###c3", ":::", "2024-01-09", " ", "02:00:00", " ", "+0000", "\n">>
BlankLine == <<"\n">>
FileLine(f) == f \o <<"\n">>

\* What the log process prints, a line at a time.
LogLines == {HeaderSkew, HeaderDelim, BlankLine} \cup {FileLine(f) : f \in Filenames}

\* The same without the blank lines, and with a header cut short.
DamagedLogLines == {HeaderSkew, HeaderDelim, HeaderShort} \cup {FileLine(f) : f \in Filenames}

\* git stamps a commit with the committer's clock, so no header names a moment
\* later than now (the machine's own offset is +0000).
Emittable(raw, clock) ==
    (Contains(raw, ":::") /\ ~ParseRaises(strip(raw)))
        => Instant(strptime(split(strip(raw), ":::", 3)[2])) <= clock

(***************************************************************************)
(* Scores are fixed-point, in thousandths.                                 *)
(***************************************************************************)
\* math.exp(-0.01 * days_passed): the series 1 - x + x^2/2 at x = days/100,
\* exact to the thousandth for the ages of the model
Decay(days_passed) == 1000 - 10 * days_passed + (days_passed * days_passed) \div 20

\* a scorer that keeps the newest commit only
SumDecayNewestOnly(commits) == IF commits = <<>> THEN 0 ELSE Decay(Head(commits)[2])

\* sum(math.exp(-0.01 * days_passed) for _, days_passed, __, ___ in commits)
RECURSIVE SumDecay(_)
SumDecay(commits) ==
    IF commits = <<>> THEN 0 ELSE Decay(Head(commits)[2]) + SumDecay(Tail(commits))

\* unpacking a commit that is None raises TypeError
Unpackable(commits) == \A i \in 1..Len(commits) : commits[i] # None

\* The loop of _compute_frecency from item i on: the scores assigned, and how it ended.
RECURSIVE ScoreItems(_, _, _)
ScoreItems(changes, i, scores) ==
    IF i > Len(changes) THEN [scores |-> scores, outcome |-> "ok"]
    ELSE IF ~Unpackable(changes[i][2]) THEN [scores |-> scores, outcome |-> "TypeError"]
    ELSE ScoreItems(changes, i + 1, Put(scores, changes[i][1], SumDecay(changes[i][2])))

\* _compute_frecency: self.frecency_scores = {} and then the loop
compute_frecency(changes) == ScoreItems(changes, 1, <<>>)

(***************************************************************************)
(* The filters of analyze_files.                                           *)
(***************************************************************************)
\* _is_file_ignored
is_file_ignored(path, patterns) == \E i \in 1..Len(patterns) : PathMatch(path, patterns[i])

\* is_file_type_supported
is_file_type_supported(filename, types) == filename \in types

\* the filter without the membership test
SkippedUntracked(filename, types, patterns, tracked) ==
    \/ ~is_file_type_supported(filename, types)
    \/ is_file_ignored(filename, patterns)

\* the line is skipped by `continue`
Skipped(filename, types, patterns, tracked) ==
    \/ ~is_file_type_supported(filename, types)
    \/ is_file_ignored(filename, patterns)
    \/ filename \notin tracked

\* an index that is not cleared
NotCleared(changes) == changes

\* self.file_changes.clear()
Cleared(changes) == <<>>

\* self.file_changes[filename]: a defaultdict(list) inserts the missing key
DefaultGet(changes, k) == IF k \in KeySet(changes) THEN changes ELSE Append(changes, <<k, <<>> >>)

\* self.file_changes[filename].append(commit)
AppendChange(changes, filename, commit) ==
    LET d == DefaultGet(changes, filename)
    IN Put(d, filename, Append(Get(d, filename), commit))

\* The text `rg --files` prints for a set of paths, one per line.
RECURSIVE RgOutput(_)
RgOutput(paths) ==
    IF paths = {} THEN <<>>
    ELSE LET p == CHOOSE p \in paths : TRUE IN p \o <<"\n">> \o RgOutput(paths \ {p})

\* set(subprocess.check_output(["rg", "--files"], ...).split())
EnumeratedFiles(output) == LET parts == splitws(output) IN {parts[i] : i \in 1..Len(parts)}

(***************************************************************************)
(* Batch object-id resolution.                                             *)
(***************************************************************************)
ObjectIds == {<<"1f">>, <<"2e">>}

\* A HEAD snapshot: the paths committed at HEAD, each with its blob id.
TreesOver(universe) == UNION {[paths -> ObjectIds] : paths \in SUBSET universe}
\* the snapshots top_files is run against: a.py and b.md hold different blobs
Trees == {t \in TreesOver(Filenames) :
            \A p \in DOMAIN t : t[p] = IF p = <<"a.py">> THEN <<"1f">> ELSE <<"2e">>}

\* One line of `git ls-tree HEAD -- ...`: <mode> SP <type> SP <object> TAB <path>
LsTreeLine(tree, path) == <<"100644", " ", "blob", " ">> \o tree[path] \o <<"\t">> \o path

\* output.splitlines() of `git ls-tree HEAD -- filenames`: one line for each
\* requested path that HEAD has
RECURSIVE LsTreeLines(_, _)
LsTreeLines(tree, paths) ==
    IF paths = {} THEN <<>>
    ELSE LET p == CHOOSE p \in paths : TRUE
         IN <<LsTreeLine(tree, p)>> \o LsTreeLines(tree, paths \ {p})

LsTree(tree, filenames) ==
    LsTreeLines(tree, {filenames[i] : i \in 1..Len(filenames)} \cap DOMAIN tree)

\* a parser that takes the last whitespace-separated field for the path
LineFilenameLastField(line) == LET parts == splitws(line) IN parts[Len(parts)]

\* filename = line[tab_pos + 1:]
LineFilename(line) == SubSeq(line, Index(line, "\t") + 1, Len(line))

\* object_id = line[:tab_pos].split()[2]
LineObjectId(line) == splitws(SubSeq(line, 1, Index(line, "\t") - 1))[3]

\* the loop over the lines: result[filename] = object_id.  line.index raises
\* ValueError on a line without a tab, [2] raises IndexError on a line with
\* fewer than three fields before it.
RECURSIVE ParseListing(_, _)
ParseListing(lines, result) ==
    IF lines = <<>> THEN [ids |-> result, outcome |-> "ok"]
    ELSE LET line == Head(lines)
         IN IF ~Contains(line, "\t") THEN [ids |-> <<>>, outcome |-> "ValueError"]
            ELSE IF Len(splitws(SubSeq(line, 1, Index(line, "\t") - 1))) < 3
                 THEN [ids |-> <<>>, outcome |-> "IndexError"]
                 ELSE ParseListing(Tail(lines),
                                   Put(result, LineFilename(line), LineObjectId(line)))

\* _get_all_object_ids(filenames), given HEAD and whether git ls-tree succeeds:
\* git is not run for an empty list, and check_output raises when it fails
get_all_object_ids(filenames, tree, lsOk) ==
    IF filenames = <<>> THEN [ids |-> <<>>, outcome |-> "ok"]
    ELSE IF ~lsOk THEN [ids |-> <<>>, outcome |-> "CalledProcessError"]
    ELSE ParseListing(LsTree(tree, filenames), <<>>)

(***************************************************************************)
(* The ranked view.                                                        *)
(***************************************************************************)
\* Place item x in a list sorted by descending score, before the first item
\* whose score is not greater: items of equal score keep their order.
RECURSIVE InsertDesc(_, _)
InsertDesc(x, sorted) ==
    IF sorted = <<>> THEN <<x>>
    ELSE IF Head(sorted)[2] <= x[2] THEN <<x>> \o sorted
    ELSE <<Head(sorted)>> \o InsertDesc(x, Tail(sorted))

\* the items in the order of the mapping, not sorted
Unsorted(items) == items

\* sorted(self.frecency_scores.items(), key=lambda x: x[1], reverse=True)
RECURSIVE SortedDesc(_)
SortedDesc(items) ==
    IF items = <<>> THEN <<>> ELSE InsertDesc(Head(items), SortedDesc(Tail(items)))

\* [commit[3] for commit in commits]
Subjects(commits) == [i \in 1..Len(commits) |-> commits[i][4]]

\* The list comprehension of top_files from item i on.  Reading
\* self.file_changes[filename] inserts a missing key; subscripting a commit
\* that is None raises TypeError.
RECURSIVE RankItems(_, _, _, _, _)
RankItems(sorted_files, i, ids, changes, acc) ==
    IF i > Len(sorted_files) THEN [ret |-> acc, changes |-> changes, outcome |-> "ok"]
    ELSE LET filename == sorted_files[i][1]
             score == sorted_files[i][2]
         IN IF filename \notin KeySet(ids)
            THEN RankItems(sorted_files, i + 1, ids, changes, acc)
            ELSE LET d == DefaultGet(changes, filename)
                 IN IF ~Unpackable(Get(d, filename))
                    THEN [ret |-> acc, changes |-> d, outcome |-> "TypeError"]
                    ELSE RankItems(sorted_files, i + 1, ids, d,
                            Append(acc, [filename |-> filename,
                                         object_id |-> Get(ids, filename),
                                         score |-> score,
                                         commit_subjects |-> Subjects(Get(d, filename))]))

\* top_files(), given HEAD and whether git ls-tree succeeds
top_files(scores, changes, tree, lsOk) ==
    LET sorted_files == SortedDesc(scores)
        r == get_all_object_ids(Keys(sorted_files), tree, lsOk)
    IN IF r.outcome # "ok" THEN [ret |-> <<>>, changes |-> changes, outcome |-> r.outcome]
       ELSE RankItems(sorted_files, 1, r.ids, changes, <<>>)

(***************************************************************************)
(* The status hash.                                                        *)
(***************************************************************************)
\* hashlib.sha256(text.encode()).hexdigest(), taken as injective
Sha256(text) == <<"sha256", text>>

\* _get_head_hash, given what `git rev-parse HEAD` prints
get_head_hash(output) == strip(output)

\* _get_working_tree_diff, given what `git diff` prints
get_working_tree_diff(output) == strip(output)

\* a hash of the working-tree diff alone
get_status_hash_diff_only(repo) == Sha256(get_working_tree_diff(repo.diff))

\* get_status_hash
get_status_hash(repo) == Sha256(get_head_hash(repo.head) \o get_working_tree_diff(repo.diff))

(***************************************************************************)
(* The ranking engine: Repository.__init__, analyze_files and top_files.   *)
(***************************************************************************)
StartNow == 9 * 24 + 12     \* 2024-01-09 12:00, local time
ExitCodes == {0, 128}

\* Repository.__init__ with the given configuration and classifier
InitRepository(patterns, types) ==
    /\ file_changes = <<>>
    /\ frecency_scores = <<>>
    /\ ignorePatterns = patterns
    /\ supported = types
    /\ pc = "idle"
    /\ files = {}
    /\ current_commit_info = None
    /\ log = <<>>
    /\ exit_code = 0
    /\ now = StartNow
    /\ op = "__init__"
    /\ outcome = "ok"
    /\ ret = None
    /\ head_tree = <<>>

InitResolveIdle == requested = <<>> /\ object_ids = <<>>

InitStatusIdle ==
    /\ repoA = [head |-> <<>>, diff |-> <<>>]
    /\ repoB = [head |-> <<>>, diff |-> <<>>]
    /\ hashA = <<>>
    /\ hashB = <<>>

Init ==
    /\ \E patterns \in PatternLists, types \in SupportedSets : InitRepository(patterns, types)
    /\ InitResolveIdle
    /\ InitStatusIdle

\* analyze_files up to the log loop: the index is cleared, the tracked files are
\* enumerated (check_output raises when rg fails) and the log process is started
\* (Popen raises when git cannot be launched).
AnalyzeStart(tracked, rgOk, launchOk) ==
    /\ pc = "idle"
    /\ op' = "analyze_files"
    /\ file_changes' = Cleared(file_changes)
    /\ log' = <<>>
    /\ current_commit_info' = None
    /\ exit_code' = 0
    /\ ret' = None
    /\ head_tree' = <<>>
    /\ IF ~rgOk
       THEN /\ outcome' = "CalledProcessError"
            /\ UNCHANGED <<pc, files>>
       ELSE /\ files' = EnumeratedFiles(RgOutput(tracked))
            /\ IF launchOk
               THEN pc' = "reading" /\ outcome' = "running"
               ELSE pc' = "idle" /\ outcome' = "OSError"
    /\ UNCHANGED <<frecency_scores, ignorePatterns, supported, now, resolveVars, statusVars>>

\* One pass of the loop `for line in iter(proc.stdout.readline, "")`.
ReadLine(raw) ==
    /\ pc = "reading"
    /\ Emittable(raw, now)
    /\ log' = Append(log, raw)
    /\ LET line == strip(raw)
       IN IF Contains(line, ":::")
          THEN IF ParseRaises(line)
               THEN /\ pc' = "idle"
                    /\ outcome' = "ValueError"
                    /\ UNCHANGED <<file_changes, current_commit_info>>
               ELSE /\ current_commit_info' = parse_commit_info(line, now)
                    /\ UNCHANGED <<file_changes, pc, outcome>>
          ELSE IF line # <<>> /\ ~Skipped(line, supported, ignorePatterns, files)
               THEN /\ file_changes' = AppendChange(file_changes, line, current_commit_info)
                    /\ UNCHANGED <<current_commit_info, pc, outcome>>
               ELSE UNCHANGED <<file_changes, current_commit_info, pc, outcome>>
    /\ UNCHANGED <<frecency_scores, ignorePatterns, supported, files, exit_code, now,
                   op, ret, head_tree, resolveVars, statusVars>>

\* readline returns "": the loop ends, the `with` block waits for the process
\* (its exit status is not looked at) and _compute_frecency runs.
ReadEOF(status) ==
    /\ pc = "reading"
    /\ status \in ExitCodes
    /\ exit_code' = status
    /\ \E r \in {compute_frecency(file_changes)} :
          frecency_scores' = r.scores /\ outcome' = r.outcome
    /\ pc' = "idle"
    /\ UNCHANGED <<file_changes, ignorePatterns, supported, files, current_commit_info,
                   log, now, op, ret, head_tree, resolveVars, statusVars>>

\* top_files()
TopFiles(tree, lsOk) ==
    /\ pc = "idle"
    /\ op' = "top_files"
    /\ head_tree' = tree
    /\ \E r \in {top_files(frecency_scores, file_changes, tree, lsOk)} :
          /\ outcome' = r.outcome
          /\ ret' = IF r.outcome = "ok" THEN r.ret ELSE None
          /\ file_changes' = r.changes
    /\ UNCHANGED <<frecency_scores, ignorePatterns, supported, pc, files,
                   current_commit_info, log, exit_code, now, resolveVars, statusVars>>

\* The change-history builder: any configuration, any enumerated set, any log.
Next ==
    \/ \E tracked \in SUBSET Filenames, rgOk \in BOOLEAN, launchOk \in BOOLEAN :
          AnalyzeStart(tracked, rgOk, launchOk)
    \/ \E raw \in LogLines : Len(log) < MaxLines /\ ReadLine(raw)
    \/ \E status \in ExitCodes : ReadEOF(status)

Spec == Init /\ [][Next]_vars

\* The ranked view: every path is tracked, supported and not ignored; the
\* enumeration may fail, and top_files is called between runs.
InitRank ==
    /\ InitRepository(<<>>, Filenames)
    /\ InitResolveIdle
    /\ InitStatusIdle

NextRank ==
    \/ \E rgOk \in BOOLEAN : AnalyzeStart(Filenames, rgOk, TRUE)
    \/ \E raw \in DamagedLogLines : Len(log) < MaxRankLines /\ ReadLine(raw)
    \/ ReadEOF(0)
    \/ \E tree \in Trees, lsOk \in BOOLEAN : TopFiles(tree, lsOk)

SpecRank == InitRank /\ [][NextRank]_vars

(***************************************************************************)
(* parse_commit_info on its own: any timestamp of the tables, read at any  *)
(* moment from its own on.                                                 *)
(***************************************************************************)
Timestamps ==
    {<<d, " ", h, " ", z>> : d \in {"2024-01-08", "2024-01-09", "2024-01-10"},
                             h \in {"00:00:00", "02:00:00", "23:00:00"},
                             z \in {"+0000", "+1400", "-1100"}}

HeaderAt(date_str) ==
    <<"###c4", ":::">> \o date_str \o <<":::", "Ann", " ", "<a@x>", ":::", "s4", "\n">>

InitParse ==
    /\ InitRepository(<<>>, Filenames)
    /\ InitResolveIdle
    /\ InitStatusIdle

\* The log prints a header for a commit made by now.
EmitHeader(date_str) ==
    /\ op \in {"__init__", "parse_commit_info"}
    /\ Instant(strptime(date_str)) <= now
    /\ log' = <<HeaderAt(date_str)>>
    /\ op' = "readline"
    /\ UNCHANGED <<file_changes, frecency_scores, ignorePatterns, supported, pc, files,
                   current_commit_info, exit_code, now, outcome, ret, head_tree,
                   resolveVars, statusVars>>

\* parse_commit_info(line) on the line read
ParseHeader ==
    /\ op = "readline"
    /\ current_commit_info' = parse_commit_info(strip(log[1]), now)
    /\ op' = "parse_commit_info"
    /\ UNCHANGED <<file_changes, frecency_scores, ignorePatterns, supported, pc, files,
                   log, exit_code, now, outcome, ret, head_tree, resolveVars,
                   statusVars>>

\* Half a day passes between two calls.
Tick ==
    /\ pc = "idle"
    /\ now < StartNow + 12 * MaxTicks
    /\ now' = now + 12
    /\ UNCHANGED <<file_changes, frecency_scores, ignorePatterns, supported, pc, files,
                   current_commit_info, log, exit_code, op, outcome, ret, head_tree,
                   resolveVars, statusVars>>

NextParse ==
    \/ \E date_str \in Timestamps : EmitHeader(date_str)
    \/ ParseHeader
    \/ Tick

SpecParse == InitParse /\ [][NextParse]_vars

(***************************************************************************)
(* _get_all_object_ids on its own: any list of paths against any HEAD.     *)
(***************************************************************************)
RECURSIVE SeqsUpTo(_, _)
SeqsUpTo(S, n) ==
    IF n = 0 THEN {<<>>}
    ELSE LET shorter == SeqsUpTo(S, n - 1)
         IN shorter \cup {Append(q, x) : q \in shorter, x \in S}

InitResolve ==
    /\ InitRepository(<<>>, Filenames)
    /\ InitStatusIdle
    /\ requested = <<>>
    /\ object_ids = <<>>

\* _get_all_object_ids(filenames)
Resolve(filenames, tree, lsOk) ==
    /\ op = "__init__"
    /\ requested' = filenames
    /\ head_tree' = tree
    /\ exit_code' = IF lsOk THEN 0 ELSE 128
    /\ op' = "_get_all_object_ids"
    /\ \E r \in {get_all_object_ids(filenames, tree, lsOk)} :
          outcome' = r.outcome /\ object_ids' = r.ids
    /\ UNCHANGED <<file_changes, frecency_scores, ignorePatterns, supported, pc, files,
                   current_commit_info, log, now, ret, statusVars>>

NextResolve ==
    \E filenames \in SeqsUpTo(ListedPaths, MaxRequested), tree \in TreesOver(ListedPaths),
       lsOk \in BOOLEAN : Resolve(filenames, tree, lsOk)

SpecResolve == InitResolve /\ [][NextResolve]_vars

(***************************************************************************)
(* get_status_hash on two repository states.                               *)
(***************************************************************************)
\* what `git rev-parse HEAD` prints: the commit id and a newline
HeadOutputs == {<<"a", "1", "\n">>, <<"a", "2", "\n">>, <<"1", "a", "\n">>}

\* what `git diff` prints: nothing, or lines
DiffOutputs ==
    {<<>>} \cup {Append(d, "\n") : d \in SeqsUpTo({"a", " ", "\n"}, MaxDiffLen - 1)}

RepoStates == [head : HeadOutputs, diff : DiffOutputs]

InitStatus ==
    /\ InitRepository(<<>>, Filenames)
    /\ InitResolveIdle
    /\ repoA \in RepoStates
    /\ repoB \in RepoStates
    /\ hashA = <<>>
    /\ hashB = <<>>

\* get_status_hash() in each of the two states
StatusHashes ==
    /\ op = "__init__"
    /\ op' = "get_status_hash"
    /\ hashA' = get_status_hash(repoA)
    /\ hashB' = get_status_hash(repoB)
    /\ UNCHANGED <<file_changes, frecency_scores, ignorePatterns, supported, pc, files,
                   current_commit_info, log, exit_code, now, outcome, ret, head_tree,
                   resolveVars, repoA, repoB>>

NextStatus == StatusHashes

SpecStatus == InitStatus /\ [][NextStatus]_vars

(***************************************************************************)
(* Properties of the change-history builder (Spec).                        *)
(***************************************************************************)
Returned == op = "analyze_files" /\ pc = "idle" /\ outcome = "ok"

\* the line is a header line / a file line naming f, as the loop tells them apart
IsHeaderLine(raw) == Contains(strip(raw), ":::")
IsFileLine(raw, f) == ~IsHeaderLine(raw) /\ strip(raw) = f

PassesFilters(f) ==
    /\ f \in supported
    /\ \A i \in 1..Len(ignorePatterns) : ~PathMatch(f, ignorePatterns[i])
    /\ f \in files

\* C1: every key of file_changes is a supported file type, matches no ignore
\* pattern and is in the file set enumerated for the run.
C1_KeysPassFilters == \A f \in KeySet(file_changes) : PassesFilters(f)

\* C1 witness: the log named, under a header, a file the filters reject and one
\* they accept; only the accepted one is a key.
C1_Witness ==
    /\ Returned
    /\ \E f \in Filenames, g \in Filenames :
          /\ ~PassesFilters(f) /\ PassesFilters(g)
          /\ \E i, j, k \in 1..Len(log) :
                i < j /\ i < k /\ IsHeaderLine(log[i]) /\ IsFileLine(log[j], f)
                /\ IsFileLine(log[k], g)
          /\ KeySet(file_changes) = {g}

\* The positions of the log's file lines naming f, in emission order.
RECURSIVE FileLinePositions(_, _)
FileLinePositions(f, n) ==
    IF n = 0 THEN <<>>
    ELSE IF IsFileLine(log[n], f) THEN Append(FileLinePositions(f, n - 1), n)
    ELSE FileLinePositions(f, n - 1)

\* The record of the header line that precedes position j, None if there is none.
RecordBefore(j) ==
    LET headers == {i \in 1..(j - 1) : IsHeaderLine(log[i])}
    IN IF headers = {} THEN None
       ELSE LET i == CHOOSE i \in headers : \A h \in headers : h <= i
            IN parse_commit_info(strip(log[i]), now)

IndexOfLog(f) ==
    LET at == FileLinePositions(f, Len(log)) IN [k \in 1..Len(at) |-> RecordBefore(at[k])]

\* C2: the index is a function of this run's log alone: a file that passes the
\* filters has one record per file line naming it, the record of the header
\* before that line, in emission order; no other file has a list.  At a normal
\* return every record is a commit, and an empty log leaves both mappings empty.
C2_IndexIsThisRunsLog ==
    (pc = "reading" \/ Returned) =>
        /\ KeySet(file_changes) \subseteq Filenames
        /\ \A f \in Filenames :
              IF PassesFilters(f) /\ IndexOfLog(f) # <<>>
              THEN f \in KeySet(file_changes) /\ Get(file_changes, f) = IndexOfLog(f)
              ELSE f \notin KeySet(file_changes)
        /\ Returned => \A i \in 1..Len(file_changes) : Unpackable(file_changes[i][2])
        /\ (Returned /\ log = <<>>) => (file_changes = <<>> /\ frecency_scores = <<>>)

\* C2 witness: a later run has begun over the index an earlier run populated
\* (its scores are still in place); the log is empty so far and so is the index.
C2_Witness ==
    pc = "reading" /\ log = <<>> /\ frecency_scores # <<>> /\ file_changes = <<>>

\* The decay contributions of a list of commits, added from the last to the first.
RECURSIVE TotalDecay(_, _)
TotalDecay(commits, n) ==
    IF n = 0 THEN 0 ELSE Decay(commits[n][2]) + TotalDecay(commits, n - 1)

\* C3: after a normal return frecency_scores has the keys of file_changes, every
\* key has at least one commit, and each score is the sum of the decay
\* contributions of the file's commits; the contribution is positive and
\* strictly decreasing in the age.
C3_ScoresAreDecaySums ==
    Returned =>
        /\ KeySet(frecency_scores) = KeySet(file_changes)
        /\ Len(frecency_scores) = Len(file_changes)
        /\ \A i \in 1..Len(file_changes) :
              LET commits == file_changes[i][2]
              IN /\ Len(commits) >= 1
                 /\ Get(frecency_scores, file_changes[i][1]) = TotalDecay(commits, Len(commits))
                 /\ \A j \in 1..Len(commits) :
                       /\ Decay(commits[j][2]) > 0
                       /\ Decay(commits[j][2] + 1) < Decay(commits[j][2])

\* C3 witness: a file with two commits of different ages has been scored, and a
\* file named by no line has no score.
C3_Witness ==
    /\ Returned
    /\ \E i \in 1..Len(file_changes) :
          /\ Len(file_changes[i][2]) = 2
          /\ file_changes[i][2][1][2] # file_changes[i][2][2][2]
    /\ \E f \in Filenames : f \notin KeySet(frecency_scores)

\* C6: a log process that exits non-zero makes analyze_files fail; it never
\* returns normally.
C6_NonZeroExitIsAnError == Returned => exit_code = 0

\* C8: a file line that comes before any header line adds nothing to the index
\* and does not make analyze_files fail.
C8_OrphanFileLineIgnored ==
    /\ \A i \in 1..Len(file_changes) : Unpackable(file_changes[i][2])
    /\ outcome # "TypeError"

\* C9: whenever no analyze_files call is executing, the two mappings have the
\* same keys and each score is the one computed from the file's list.
C9_NeverOutOfSync ==
    pc = "idle" =>
        /\ KeySet(frecency_scores) = KeySet(file_changes)
        /\ \A i \in 1..Len(file_changes) :
              /\ Unpackable(file_changes[i][2])
              /\ Get(frecency_scores, file_changes[i][1])
                    = TotalDecay(file_changes[i][2], Len(file_changes[i][2]))

(***************************************************************************)
(* Properties of the ranked view (SpecRank).                               *)
(***************************************************************************)
PositionIn(d, k) == CHOOSE i \in 1..Len(d) : d[i][1] = k

\* C4: what top_files returns holds exactly the scored files that HEAD has, each
\* once, by non-increasing score, files of equal score in the order of the
\* score mapping; each entry has the file's score, its object id at HEAD and
\* the subjects of its commits in the order of its file_changes list.
C4_RankedView ==
    (op = "top_files" /\ outcome = "ok") =>
        /\ {ret[i].filename : i \in 1..Len(ret)} = KeySet(frecency_scores) \cap DOMAIN head_tree
        /\ \A i, j \in 1..Len(ret) :
              i < j =>
                 /\ ret[i].filename # ret[j].filename
                 /\ ret[i].score >= ret[j].score
                 /\ ret[i].score = ret[j].score =>
                       PositionIn(frecency_scores, ret[i].filename)
                          < PositionIn(frecency_scores, ret[j].filename)
        /\ \A i \in 1..Len(ret) :
              LET f == ret[i].filename
                  commits == Get(file_changes, f)
              IN /\ ret[i].score = Get(frecency_scores, f)
                 /\ ret[i].object_id = head_tree[f]
                 /\ Len(ret[i].commit_subjects) = Len(commits)
                 /\ \A k \in 1..Len(commits) : ret[i].commit_subjects[k] = commits[k][4]

\* C4 witness: two files are returned, the second of the score mapping first
\* because its score is greater.
C4_Witness ==
    /\ op = "top_files" /\ outcome = "ok"
    /\ Len(ret) = 2
    /\ ret[1].score > ret[2].score
    /\ ret[1].filename = frecency_scores[2][1]
    /\ Len(ret[1].commit_subjects) >= 1

\* A scored file that HEAD lacks is left out and nothing is raised: reachable.
C4_DroppedReached ==
    /\ op = "top_files" /\ outcome = "ok"
    /\ Len(frecency_scores) = 2
    /\ Len(ret) = 1

(***************************************************************************)
(* Properties of batch resolution (SpecResolve).                           *)
(***************************************************************************)
RequestedSet == {requested[i] : i \in 1..Len(requested)}

\* C5: the mapping returned has exactly the requested filenames that HEAD has,
\* each with the object id of its line; a requested filename that HEAD lacks is
\* left out, and the call raises only when git itself fails.
C5_BatchResolution ==
    op = "_get_all_object_ids" =>
        /\ outcome = "ok" =>
              /\ KeySet(object_ids) = RequestedSet \cap DOMAIN head_tree
              /\ Len(object_ids) = Cardinality(KeySet(object_ids))
              /\ \A k \in KeySet(object_ids) : Get(object_ids, k) = head_tree[k]
        /\ outcome # "ok" => (outcome = "CalledProcessError" /\ exit_code # 0)

\* C5 witness: three filenames were requested, HEAD has two of them, and the
\* mapping has exactly those two.
C5_Witness ==
    /\ op = "_get_all_object_ids" /\ outcome = "ok"
    /\ Cardinality(RequestedSet) = 3
    /\ Cardinality(RequestedSet \cap DOMAIN head_tree) = 2
    /\ Len(object_ids) = 2

(***************************************************************************)
(* Properties of the status hash (SpecStatus).                             *)
(***************************************************************************)
AllWhitespace(s) == \A i \in 1..Len(s) : s[i] \in Whitespace

\* x and y are the same text between some leading and some trailing whitespace
SameButOuterWhitespace(x, y) ==
    \E i \in 1..(Len(x) + 1), j \in 0..Len(x), k \in 1..(Len(y) + 1), l \in 0..Len(y) :
        /\ SubSeq(x, i, j) = SubSeq(y, k, l)
        /\ AllWhitespace(SubSeq(x, 1, i - 1)) /\ AllWhitespace(SubSeq(x, j + 1, Len(x)))
        /\ AllWhitespace(SubSeq(y, 1, k - 1)) /\ AllWhitespace(SubSeq(y, l + 1, Len(y)))

\* C7 as stated: the two hashes are equal exactly when HEAD and the diff text
\* are both identical.
C7_HashIffIdentical ==
    op = "get_status_hash" =>
        (hashA = hashB <=> (repoA.head = repoB.head /\ repoA.diff = repoB.diff))

\* C7 as amended: the two hashes are equal exactly when HEAD is identical and
\* the diff texts are identical apart from leading and trailing whitespace.
C7_HashIffIdenticalButOuterWhitespace ==
    op = "get_status_hash" =>
        (hashA = hashB <=>
            (repoA.head = repoB.head /\ SameButOuterWhitespace(repoA.diff, repoB.diff)))

\* C7 witness: two diffs that differ in their trailing whitespace only, on the
\* same HEAD, have the same hash.
C7_Witness ==
    /\ op = "get_status_hash"
    /\ repoA.head = repoB.head
    /\ repoA.diff # repoB.diff
    /\ hashA = hashB
    /\ \E i \in 1..Len(repoA.diff) : repoA.diff[i] \notin Whitespace

(***************************************************************************)
(* Properties of parse_commit_info (SpecParse).                            *)
(***************************************************************************)
\* C10: every commit record has an age of at least 0 days, so that no commit
\* contributes more than exp(0) = 1 to a score.
C10_AgeNonNegative ==
    op = "parse_commit_info" =>
        (current_commit_info[2] >= 0 /\ Decay(current_commit_info[2]) <= Decay(0))

====
